---- MODULE Spec2Model ----
(***************************************************************************)
(* Model of GitHubService (src/src/githubService.ts): the resolution of    *)
(* the repository identity from `git remote -v` (getRepositoryInfo) and    *)
(* the two pull-request checkout operations.                               *)
(*                                                                         *)
(* A string is a sequence of one-character strings, so that the regular    *)
(* expressions, split(), includes() and the template literals of the       *)
(* source are computed character by character.                             *)
(***************************************************************************)
EXTENDS Naturals, Sequences, FiniteSets, Bags, TLC

\* ------------------------------------------------------------------------
\* Bounds of the model

\* Most lines in one `git remote -v` output.
MaxRemoteLines == 2

\* ------------------------------------------------------------------------
\* Strings

\* null, as a value that can be compared with any record.
NULL == [null |-> TRUE]

\* String.prototype.match returning null; a successful match is the nonempty
\* tuple of its capture groups.
NoMatch == <<>>

\* JavaScript's \s, as far as it can occur in the output of git.
IsSpace(c) == c \in {" ", "\t", "\n", "\r"}

\* The `.` of a regular expression: any character but a line terminator.
IsAnyChar(c) == c \notin {"\n", "\r"}

\* s[a..b]; the empty string when b < a.
Slice(s, a, b) == [i \in 1..(IF b >= a THEN b - a + 1 ELSE 0) |-> s[a + i - 1]]

\* The literal t occurs in s at index p.
LitAt(s, p, t) ==
  /\ p >= 1
  /\ p + Len(t) - 1 <= Len(s)
  /\ \A i \in 1..Len(t) : s[p + i - 1] = t[i]

\* String.prototype.includes
Includes(s, t) == \E p \in 1..(Len(s) + 1) : LitAt(s, p, t)

\* The least member of a nonempty set of numbers.
MinOf(S) == CHOOSE x \in S : \A y \in S : x <= y
MaxOf(S) == CHOOSE x \in S : \A y \in S : x >= y

\* String.prototype.split on a one-character separator.
RECURSIVE SplitFrom(_, _, _)
SplitAt(s, sep, from, hits) ==
  IF hits = {}
  THEN <<Slice(s, from, Len(s))>>
  ELSE <<Slice(s, from, MinOf(hits) - 1)>> \o SplitFrom(s, sep, MinOf(hits) + 1)

SplitFrom(s, sep, from) == SplitAt(s, sep, from, {i \in from..Len(s) : s[i] = sep})

Split(s, sep) == SplitFrom(s, sep, 1)

\* Array.prototype.join with a one-character separator after every element.
RECURSIVE JoinLines(_)
JoinLines(ls) ==
  IF ls = <<>> THEN <<>> ELSE Head(ls) \o <<"\n">> \o JoinLines(Tail(ls))

\* ------------------------------------------------------------------------
\* Literals of the source

S_fetch     == <<"(", "f", "e", "t", "c", "h", ")">>
S_push      == <<"(", "p", "u", "s", "h", ")">>
S_dotgit    == <<".", "g", "i", "t">>
S_gitlab    == <<"g", "i", "t", "l", "a", "b">>
S_bitbucket == <<"b", "i", "t", "b", "u", "c", "k", "e", "t">>
S_dot       == <<".">>
S_origin    == <<"o", "r", "i", "g", "i", "n">>
S_githubcom == <<"g", "i", "t", "h", "u", "b", ".", "c", "o", "m">>

\* ------------------------------------------------------------------------
\* The regular expressions of getRepositoryInfo

\* /github.com/ at index p: the dot is unescaped and matches any character.
GithubComAt(s, p) ==
  /\ p + 9 <= Len(s)
  /\ LitAt(s, p, <<"g", "i", "t", "h", "u", "b">>)
  /\ IsAnyChar(s[p + 6])
  /\ LitAt(s, p + 7, <<"c", "o", "m">>)

\* ([^/]+)\/ from index a: the index of the slash that ends the group, 0 when
\* the group cannot match. The group holds no slash and is followed by one, so
\* it ends at the first slash after a, and greedy backtracking has no other
\* choice.
FirstUnlessAt(hits, a) == IF hits = {} \/ MinOf(hits) = a THEN 0 ELSE MinOf(hits)

SlashAfterSegment(s, a) == FirstUnlessAt({e \in a..Len(s) : s[e] = "/"}, a)

\* (?:\.git)?[\s\t] at index q: the optional group is tried first, then skipped.
TailAt(s, q) ==
  \/ LitAt(s, q, S_dotgit) /\ q + 4 <= Len(s) /\ IsSpace(s[q + 4])
  \/ q <= Len(s) /\ IsSpace(s[q])

\* ([^/\s]+?)(?:\.git)?[\s\t] from index b: the length of the lazy group, the
\* least one after which the tail matches; 0 when there is none.
LeastOrZero(ok) == IF ok = {} THEN 0 ELSE MinOf(ok)

\* Mutant: the name group taken greedily, (?:\.git)? never stripping a suffix.
GreedyNameLen(s, b) ==
  LET ok == {k \in 1..(Len(s) - b + 1) :
               /\ \A i \in b..(b + k - 1) : s[i] # "/" /\ ~IsSpace(s[i])
               /\ TailAt(s, b + k)}
  IN  IF ok = {} THEN 0 ELSE MaxOf(ok)

LazyNameLen(s, b) ==
  LeastOrZero({k \in 1..(Len(s) - b + 1) :
                 /\ \A i \in b..(b + k - 1) : s[i] # "/" /\ ~IsSpace(s[i])
                 /\ TailAt(s, b + k)})

\* The two capture groups, once the slash e and the length k of the name are
\* known.
CaptureName(s, a, e, k) ==
  IF k = 0 THEN NoMatch ELSE <<Slice(s, a, e - 1), Slice(s, e + 1, e + k)>>

CaptureSegment(s, a, e) ==
  IF e = 0 THEN NoMatch ELSE CaptureName(s, a, e, LazyNameLen(s, e + 1))

\* ([^/]+)\/([^/\s]+?)(?:\.git)?[\s\t] from index a, the part the two patterns
\* share: its two capture groups, or NoMatch.
SegmentNameAt(s, a) == CaptureSegment(s, a, SlashAfterSegment(s, a))

\* remote.match(/github.com[:/]([^/]+)\/([^/\s]+?)(?:\.git)?[\s\t]/) anchored
\* at index p: the capture groups <<match[1], match[2]>>, or NoMatch.
DirectMatchAt(s, p) ==
  IF GithubComAt(s, p) /\ p + 10 <= Len(s) /\ s[p + 10] \in {":", "/"}
  THEN SegmentNameAt(s, p + 11)
  ELSE NoMatch

\* The leftmost match of the direct pattern in the line.
DirectMatchFirst(s, ps) == IF ps = {} THEN NoMatch ELSE DirectMatchAt(s, MinOf(ps))

DirectMatch(s) == DirectMatchFirst(s, {p \in 1..Len(s) : DirectMatchAt(s, p) # NoMatch})

\* remote.match(/([^@\s]+)[@:]([^/]+)\/([^/\s]+?)(?:\.git)?[\s\t]/) anchored at
\* index p: <<match[1], match[2], match[3]>>, or NoMatch. The first group is
\* greedy: the longest run of [^@\s] from p that is followed by @ or : and by
\* a match of the rest.
AliasMatchLongest(s, p, js) ==
  IF js = {} THEN NoMatch
  ELSE <<Slice(s, p, MaxOf(js))>> \o SegmentNameAt(s, MaxOf(js) + 2)

AliasMatchAt(s, p) ==
  AliasMatchLongest(s, p, {j \in p..(Len(s) - 1) :
                             /\ s[j + 1] \in {"@", ":"}
                             /\ \A i \in p..j : s[i] # "@" /\ ~IsSpace(s[i])
                             /\ SegmentNameAt(s, j + 2) # NoMatch})

\* The leftmost match of the alias pattern in the line.
AliasMatchFirst(s, ps) == IF ps = {} THEN NoMatch ELSE AliasMatchAt(s, MinOf(ps))

AliasMatch(s) == AliasMatchFirst(s, {p \in 1..Len(s) : AliasMatchAt(s, p) # NoMatch})

\* match[2].split(':').pop() || match[2]
\* Mutant: without the `|| match[2]` fallback.
LastToken(parts, segment) == parts[Len(parts)]

LastOr(parts, segment) ==
  IF parts[Len(parts)] # <<>> THEN parts[Len(parts)] ELSE segment

\* Mutant: the owner taken as the whole segment, not split at the colons.
AliasOwnerWhole(segment) == segment

AliasOwner(segment) == LastOr(Split(segment, ":"), segment)

\* !host.includes('.') && !host.includes('gitlab') && !host.includes('bitbucket')
LooksLikeGitHubAlias(host) ==
  /\ ~Includes(host, S_dot)
  /\ ~Includes(host, S_gitlab)
  /\ ~Includes(host, S_bitbucket)

\* One iteration of the loop over fetchRemotes, given the match d of the direct
\* pattern and the match m of the alias pattern (tried when d is null): the
\* identity the line yields and the rule that yielded it, or NULL when the loop
\* goes on to the next line.
MatchResult(d, m) ==
  IF d # NoMatch
  THEN [owner |-> d[1], repo |-> d[2], via |-> "direct"]
  ELSE IF m # NoMatch /\ LooksLikeGitHubAlias(m[1])
  THEN [owner |-> AliasOwner(m[2]), repo |-> m[3], via |-> "alias"]
  ELSE NULL

MatchRemote(remote) == MatchResult(DirectMatch(remote), AliasMatch(remote))

\* Mutant: the filter keeps every remote line, push lines too.
IsRemoteLine(line) == line # <<>>

\* line => line.includes('(fetch)')
IsFetchLine(line) == Includes(line, S_fetch)

\* Array.prototype.filter with that test.
RECURSIVE FilterFetch(_)
FilterFetch(ls) ==
  IF ls = <<>> THEN <<>>
  ELSE (IF IsFetchLine(Head(ls)) THEN <<Head(ls)>> ELSE <<>>) \o FilterFetch(Tail(ls))

\* remotesOutput.split('\n').filter(line => line.includes('(fetch)'))
FetchRemotes(output) == FilterFetch(Split(output, "\n"))

\* Mutant: the loop runs from the last line to the first.
RECURSIVE LastMatch(_)
LastMatch(ls) ==
  IF ls = <<>> THEN NULL
  ELSE IF LastMatch(Tail(ls)) # NULL THEN LastMatch(Tail(ls))
  ELSE MatchRemote(Head(ls))

\* for (const remote of fetchRemotes) { ... return repoInfo; } ... return null;
RECURSIVE FirstMatch(_)
ReturnOrContinue(m, rest) == IF m # NULL THEN m ELSE FirstMatch(rest)

FirstMatch(ls) ==
  IF ls = <<>> THEN NULL ELSE ReturnOrContinue(MatchRemote(Head(ls)), Tail(ls))

\* ------------------------------------------------------------------------
\* The workspace and getRepositoryInfo

VARIABLES
  isGitRepo,     \* `git rev-parse --git-dir` succeeds in the workspace
  remoteThrows,  \* execSync('git remote -v') throws
  remoteLines,   \* the lines `git remote -v` prints, in order
  rpc,           \* "idle" before the call of getRepositoryInfo, "done" after
  repoInfo,      \* what getRepositoryInfo returned
  execLog,       \* the git commands getRepositoryInfo ran, in order
  debugLog       \* the last message getRepositoryInfo wrote to debugChannel

rvars == <<isGitRepo, remoteThrows, remoteLines, rpc, repoInfo, execLog, debugLog>>

VARIABLES
  git,       \* the local repository: remotes, branches, HEAD, tracking refs
  octokit,   \* this.octokit !== null
  started,   \* the number of checkout messages received so far
  inflight,  \* the checkouts awaiting a promise, a bag
  last       \* the checkout that finished last

cvars == <<git, octokit, started, inflight, last>>

\* The session of the service and the operations that use it:
\*   session   the session VS Code holds for the extension (0: none)
\*   calls     the calls of service functions that await a promise (a bag)
\*   joins     per handler, the calls its Promise.all still waits for
\*   trace     what the handlers did: writes sent, messages, errors
\*   handled   the number of messages handled
\*   switched  the session the last switchAccount forced, 0 when none has
\*             resolved since the last one was asked for
VARIABLES session, calls, joins, trace, handled, switched

svars == <<session, calls, joins, trace, handled, switched>>

\* The panels of the extension:
\*   currentPanel  devDashProvider._currentPanel (0: undefined)
\*   panels        the webview panels created so far, in order
\*   operations    the operations the handlers await (a bag)
\*   delivered     the replies posted to a webview
\*   posted        the messages a webview posted that no listener received
\*   inputs        the number of commands and webview messages so far
VARIABLES currentPanel, panels, operations, delivered, posted, inputs

pvars == <<currentPanel, panels, operations, delivered, posted, inputs>>

\* The local changes of the workspace folder:
\*   porcelain     the output of `git status --porcelain`
\*   statusThrows  whether the command fails
\*   changes       what getUncommittedChanges returned (NULL: not called)
VARIABLES porcelain, statusThrows, changes

uvars == <<porcelain, statusThrows, changes>>

xvars == <<svars, pvars, uvars>>

vars == <<rvars, cvars, xvars>>

\* No message of the dashboard has been handled.
SessionIdle ==
  /\ session = 0
  /\ calls = EmptyBag
  /\ joins = <<>>
  /\ trace = {}
  /\ handled = 0
  /\ switched = 0

\* No panel has been opened.
PanelIdle ==
  /\ currentPanel = 0
  /\ panels = <<>>
  /\ operations = EmptyBag
  /\ delivered = {}
  /\ posted = {}
  /\ inputs = 0

\* The local changes have not been asked for.
ChangesIdle ==
  /\ porcelain = <<>>
  /\ statusThrows = FALSE
  /\ changes = NULL

\* execSync('git remote -v', ...): every line ends with a newline.
GitRemoteV(ls) == JoinLines(ls)

\* The RepositoryInfo of a match of the loop.
RepositoryInfo(m) == [owner |-> m.owner, repo |-> m.repo]

\* What getRepositoryInfo returns and logs once its loop has ended with m.
LoopResult(m) ==
  [ret  |-> IF m = NULL THEN NULL ELSE RepositoryInfo(m),
   exec |-> <<"git rev-parse --git-dir", "git remote -v">>,
   log  |-> IF m = NULL THEN "No GitHub repository info found"
            ELSE IF m.via = "direct" THEN "Repository info found"
            ELSE "Repository info found via SSH alias"]

\* Mutant: without the `git rev-parse --git-dir` probe.
GetRepositoryInfoNoProbe(isRepo, throws, ls) ==
  IF throws \/ ~isRepo
  THEN [ret  |-> NULL,
        exec |-> <<"git remote -v">>,
        log  |-> "Error getting repository info"]
  ELSE LoopResult(FirstMatch(FetchRemotes(GitRemoteV(ls))))

\* getRepositoryInfo(workspacePath): the value returned, the git commands run
\* and the last debugChannel message.
GetRepositoryInfo(isRepo, throws, ls) ==
  IF ~isRepo
  THEN [ret  |-> NULL,
        exec |-> <<"git rev-parse --git-dir">>,
        log  |-> "Not a git repository"]
  ELSE IF throws
  THEN [ret  |-> NULL,
        exec |-> <<"git rev-parse --git-dir", "git remote -v">>,
        log  |-> "Error getting repository info"]
  ELSE LoopResult(FirstMatch(FetchRemotes(GitRemoteV(ls))))

\* ------------------------------------------------------------------------
\* The remote listings the resolver is run on

S_upstream == <<"u", "p", "s", "t", "r", "e", "a", "m">>
S_git_at   == <<"g", "i", "t", "@">>
S_https    == <<"h", "t", "t", "p", "s", ":", "/", "/">>
S_gitlabcom == S_gitlab \o <<".", "c", "o", "m">>
S_gh       == <<"g", "h">>
S_acme     == <<"a", "c", "m", "e">>
S_widgets  == <<"w", "i", "d", "g", "e", "t", "s">>
S_octo     == <<"o", "c", "t", "o">>
S_hello    == <<"h", "e", "l", "l", "o">>
S_fork     == <<"f", "o", "r", "k">>
S_foo      == <<"f", "o", "o">>
S_bar      == <<"b", "a", "r">>
S_team     == <<"t", "e", "a", "m">>

\* https://github.com/acme/widgets.git
Url_https == S_https \o S_githubcom \o <<"/">> \o S_acme \o <<"/">> \o S_widgets \o S_dotgit
\* git@github.com:octo/hello
Url_scp == S_git_at \o S_githubcom \o <<":">> \o S_octo \o <<"/">> \o S_hello
\* git@gh:fork/widgets.git
Url_alias == S_git_at \o S_gh \o <<":">> \o S_fork \o <<"/">> \o S_widgets \o S_dotgit
\* gh:octo/hello.git
Url_bare_alias == S_gh \o <<":">> \o S_octo \o <<"/">> \o S_hello \o S_dotgit
\* git@gitlab.com:foo/bar.git
Url_gitlab == S_git_at \o S_gitlabcom \o <<":">> \o S_foo \o <<"/">> \o S_bar \o S_dotgit
\* gitlab.com:foo/bar.git
Url_bare_gitlab == S_gitlabcom \o <<":">> \o S_foo \o <<"/">> \o S_bar \o S_dotgit
\* git@gh:/widgets.git
Url_colon_end == S_git_at \o S_gh \o <<":", "/">> \o S_widgets \o S_dotgit
\* git@github.com:team:acme/widgets.git
Url_two_colons ==
  S_git_at \o S_githubcom \o <<":">> \o S_team \o <<":">> \o S_acme \o <<"/">> \o S_widgets \o S_dotgit

RemoteUrls ==
  {Url_https, Url_scp, Url_alias, Url_bare_alias, Url_gitlab, Url_bare_gitlab,
   Url_colon_end, Url_two_colons}

\* One line of `git remote -v`: name, a tab, the URL, a space, the direction.
RemoteLine(name, url, dir) == name \o <<"\t">> \o url \o <<" ">> \o dir

FetchLines ==
  {RemoteLine(S_origin, u, S_fetch) : u \in RemoteUrls}
    \cup {RemoteLine(S_upstream, u, S_fetch) : u \in {Url_https, Url_alias}}

PushLines == {RemoteLine(S_origin, u, S_push) : u \in {Url_https, Url_alias, Url_gitlab}}

RemoteLineSet == FetchLines \cup PushLines

\* The listings of at most MaxRemoteLines lines.
Listings == UNION {[1..n -> RemoteLineSet] : n \in 0..MaxRemoteLines}

\* ------------------------------------------------------------------------
\* The local git repository, as the git commands of the checkouts see it

\* A local branch that holds commits of its own.
LocalTip == <<"l", "o", "c", "a", "l">>

\* The characters of remote names, in ASCII order.
Ascii ==
  <<"-", "0", "1", "2", "3", "4", "5", "6", "7", "8", "9",
    "a", "b", "c", "d", "e", "f", "g", "h", "i", "j", "k", "l", "m",
    "n", "o", "p", "q", "r", "s", "t", "u", "v", "w", "x", "y", "z">>

Rank(c) == CHOOSE i \in 1..Len(Ascii) : Ascii[i] = c

\* a sorts before b, byte by byte.
FirstDiff(a, b) ==
  LeastOrZero({i \in 1..Len(a) : i > Len(b) \/ a[i] # b[i]})

LessAt(a, b, i) ==
  IF i = 0 THEN Len(a) < Len(b)
  ELSE i <= Len(b) /\ Rank(a[i]) < Rank(b[i])

LexLess(a, b) == LessAt(a, b, FirstDiff(a, b))

\* The names of the configured remotes.
RemoteNamesOf(g) == {g.remotes[i].name : i \in 1..Len(g.remotes)}

\* `git remote -v` lists the remotes sorted by name, a fetch and a push line
\* for each.
RemoteV(g) ==
  [i \in 1..(2 * Len(g.remotes)) |->
     RemoteLine(g.remotes[(i + 1) \div 2].name,
                g.remotes[(i + 1) \div 2].url,
                IF i % 2 = 1 THEN S_fetch ELSE S_push)]

\* The git commands the checkouts run through execSync.
RemoteAdd(n, u)     == [op |-> "remote add", name |-> n, arg |-> u]
RemoteSetUrl(n, u)  == [op |-> "remote set-url", name |-> n, arg |-> u]
Fetch(n, ref)       == [op |-> "fetch", name |-> n, arg |-> ref]
CheckoutNew(b, start) == [op |-> "checkout -b", name |-> b, arg |-> start]
Checkout(b)         == [op |-> "checkout", name |-> b, arg |-> <<>>]
ResetHard(start)    == [op |-> "reset --hard", name |-> <<>>, arg |-> start]

\* remote/ref, as the checkouts write a remote-tracking branch.
TrackingRef(n, ref) == n \o <<"/">> \o ref

\* The URL of the configured remote n.
UrlOf(g, n) == g.remotes[CHOOSE i \in 1..Len(g.remotes) : g.remotes[i].name = n].url

\* A URL git can fetch from: neither empty nor the text "undefined".
S_undefined == <<"u", "n", "d", "e", "f", "i", "n", "e", "d">>
Fetchable(u) == u # <<>> /\ u # S_undefined

\* `git checkout b` without a local branch b creates it from the one
\* remote-tracking branch of that name, when there is exactly one.
GuessedStart(g, b) ==
  {t \in g.tracking : \E n \in RemoteNamesOf(g) : t = TrackingRef(n, b)}

\* Whether the command succeeds in repository g under environment e
\* (e.remoteFails: the configuration cannot be written; e.fetchFails: the
\* remote cannot be reached or lacks the ref; e.checkoutFails: the working
\* tree cannot be switched).
Succeeds(g, e, c) ==
  CASE c.op = "remote add" ->
         ~e.remoteFails /\ c.arg # <<>> /\ c.name \notin RemoteNamesOf(g)
    [] c.op = "remote set-url" ->
         ~e.remoteFails /\ c.arg # <<>> /\ c.name \in RemoteNamesOf(g)
    [] c.op = "fetch" ->
         ~e.fetchFails /\ c.name \in RemoteNamesOf(g) /\ Fetchable(UrlOf(g, c.name))
    [] c.op = "checkout -b" ->
         ~e.checkoutFails /\ c.name \notin DOMAIN g.branches /\ c.arg \in g.tracking
    [] c.op = "checkout" ->
         /\ ~e.checkoutFails
         /\ c.name \in DOMAIN g.branches \/ Cardinality(GuessedStart(g, c.name)) = 1
    [] c.op = "reset --hard" -> c.arg \in g.tracking

\* The remotes with [name, url] added in sorted place.
InsertRemote(rs, n, u) ==
  [i \in 1..(Len(rs) + 1) |->
     IF i <= Cardinality({k \in 1..Len(rs) : LexLess(rs[k].name, n)})
     THEN rs[i]
     ELSE IF i = Cardinality({k \in 1..Len(rs) : LexLess(rs[k].name, n)}) + 1
     THEN [name |-> n, url |-> u]
     ELSE rs[i - 1]]

\* The branches with b at tip t.
WithBranch(bs, b, t) == [x \in DOMAIN bs \cup {b} |-> IF x = b THEN t ELSE bs[x]]

\* The repository after the command has succeeded.
Effect(g, c) ==
  CASE c.op = "remote add" ->
         [g EXCEPT !.remotes = InsertRemote(g.remotes, c.name, c.arg)]
    [] c.op = "remote set-url" ->
         [g EXCEPT !.remotes =
            [i \in 1..Len(g.remotes) |->
               IF g.remotes[i].name = c.name
               THEN [name |-> c.name, url |-> c.arg]
               ELSE g.remotes[i]]]
    [] c.op = "fetch" ->
         [g EXCEPT !.tracking = g.tracking \cup {TrackingRef(c.name, c.arg)}]
    [] c.op = "checkout -b" ->
         [g EXCEPT !.branches = WithBranch(g.branches, c.name, c.arg), !.head = c.name]
    [] c.op = "checkout" ->
         IF c.name \in DOMAIN g.branches
         THEN [g EXCEPT !.head = c.name]
         ELSE [g EXCEPT !.branches =
                          WithBranch(g.branches, c.name,
                                     CHOOSE t \in GuessedStart(g, c.name) : TRUE),
                        !.head = c.name]
    [] c.op = "reset --hard" ->
         [g EXCEPT !.branches = WithBranch(g.branches, g.head, c.arg)]

\* A run of git commands: the repository, the commands run so far, and the
\* command whose failure is propagating as an exception (<<>> when none is).
StartRun(g) == [git |-> g, cmds |-> <<>>, thrown |-> <<>>]

Running(r) == r.thrown = <<>>

\* execSync(c) as the next statement: skipped while an exception propagates.
Exec(r, e, c) ==
  IF ~Running(r) THEN r
  ELSE IF Succeeds(r.git, e, c)
  THEN [git |-> Effect(r.git, c), cmds |-> Append(r.cmds, c), thrown |-> <<>>]
  ELSE [git |-> r.git, cmds |-> Append(r.cmds, c), thrown |-> <<c>>]

\* catch (error) { ... }: the exception thrown by the try block is dropped.
Caught(r) == [r EXCEPT !.thrown = <<>>]

\* Mutant (C15): the try block without its catch.
TryWithoutCatch(r, e, c1, c2) == Exec(r, e, c1)

\* try { execSync(c1) } catch { execSync(c2) }
TryCatch(r, e, c1, c2) ==
  IF ~Running(r) \/ Running(Exec(r, e, c1))
  THEN Exec(r, e, c1)
  ELSE Exec(Caught(Exec(r, e, c1)), e, c2)

\* try { execSync(c1) } catch { execSync(c2); execSync(c3) }
TryCatchTwo(r, e, c1, c2, c3) ==
  IF ~Running(r) \/ Running(Exec(r, e, c1))
  THEN Exec(r, e, c1)
  ELSE Exec(Exec(Caught(Exec(r, e, c1)), e, c2), e, c3)

\* Mutant (C17): the inner catch rethrows.
TryCatchLoud(r, e, c1, c2) == TryCatch(r, e, c1, c2)

\* try { execSync(c1) } catch { try { execSync(c2) } catch { warn } }
TryCatchQuiet(r, e, c1, c2) ==
  IF ~Running(r) THEN r ELSE Caught(TryCatch(r, e, c1, c2))

\* ------------------------------------------------------------------------
\* checkoutPR and checkoutPRGitHubStyle

S_pr_dash == <<"p", "r", "-">>
\* Mutant (C11): a remote named after pull request 42.
S_pr_42 == <<"p", "r", "-", "4", "2">>

S_pr_remote == <<"p", "r", "-", "r", "e", "m", "o", "t", "e">>

\* `${prNumber}`: the decimal digits of a number.
RECURSIVE ToDec(_)
ToDec(n) ==
  IF n < 10 THEN <<Ascii[n + 2]>> ELSE ToDec(n \div 10) \o <<Ascii[(n % 10) + 2]>>

\* `${repoInfo.owner}/${repoInfo.repo}`
FullNameOf(info) == info.owner \o <<"/">> \o info.repo

\* Mutant (C8): the head repository compared with the PR's base repository.
HeadIsBase(pr, info) ==
  pr.head.repo # NULL /\ pr.head.repo.full_name = pr.base.repo.full_name

\* pr.head.repo?.full_name === `${repoInfo.owner}/${repoInfo.repo}`
IsSameRepo(pr, info) ==
  pr.head.repo # NULL /\ pr.head.repo.full_name = FullNameOf(info)

\* `${pr.head.repo?.clone_url}`: undefined prints as the text "undefined".
CloneUrlText(pr) ==
  IF pr.head.repo = NULL THEN S_undefined ELSE pr.head.repo.clone_url

\* pr.head.repo?.clone_url || ''
CloneUrlOrEmpty(pr) ==
  IF pr.head.repo = NULL THEN <<>> ELSE pr.head.repo.clone_url

\* `${pr.head.repo?.owner.login}:${branchName}`
ForkBranchLabel(pr) ==
  (IF pr.head.repo = NULL THEN S_undefined ELSE pr.head.repo.owner.login)
    \o <<":">> \o pr.head.ref

\* checkoutPR: const remoteName = ... ? 'origin' : 'pr-remote'
StandardRemoteName(pr, info) ==
  IF IsSameRepo(pr, info) THEN S_origin ELSE S_pr_remote

\* Mutant (C9): the local branch named after the head ref alone.
HeadRefBranchName(n, pr) == pr.head.ref

\* checkoutPR: const localBranchName = `pr-${prNumber}-${branchName}`
StandardBranchName(n, pr) == S_pr_dash \o ToDec(n) \o <<"-">> \o pr.head.ref

\* Mutant (C13): no remote is registered for a fork.
NoRemoteStep(r, e, pr, info) == r

\* checkoutPR: if (remoteName === 'pr-remote') { try add, catch set-url }
StandardRemoteStep(r, e, pr, info) ==
  IF StandardRemoteName(pr, info) = S_pr_remote
  THEN TryCatch(r, e, RemoteAdd(S_pr_remote, CloneUrlText(pr)),
                      RemoteSetUrl(S_pr_remote, CloneUrlText(pr)))
  ELSE r

\* Mutant (C16): the branch step run without the fetch before it.
CheckoutPRWithoutFetch(g, e, n, pr, info) ==
  TryCatch(StandardRemoteStep(StartRun(g), e, pr, info),
           e,
           CheckoutNew(StandardBranchName(n, pr),
                       TrackingRef(StandardRemoteName(pr, info), pr.head.ref)),
           Checkout(StandardBranchName(n, pr)))

\* checkoutPR: the git commands run once the pull request is known.
CheckoutPRCommands(g, e, n, pr, info) ==
  TryCatch(Exec(StandardRemoteStep(StartRun(g), e, pr, info), e,
                Fetch(StandardRemoteName(pr, info), pr.head.ref)),
           e,
           CheckoutNew(StandardBranchName(n, pr),
                       TrackingRef(StandardRemoteName(pr, info), pr.head.ref)),
           Checkout(StandardBranchName(n, pr)))

\* checkoutPRGitHubStyle: const remoteName = `pr-${prNumber}`, which is also
\* its localBranchName.
PrRemoteName(n) == S_pr_dash \o ToDec(n)

\* checkoutPRGitHubStyle: try add, catch { try set-url, catch warn }
GitHubStyleRemoteStep(r, e, n, pr) ==
  TryCatchQuiet(r, e, RemoteAdd(PrRemoteName(n), CloneUrlOrEmpty(pr)),
                      RemoteSetUrl(PrRemoteName(n), CloneUrlOrEmpty(pr)))

\* checkoutPRGitHubStyle, fork PR.
GitHubStyleFork(g, e, n, pr) ==
  TryCatchTwo(Exec(GitHubStyleRemoteStep(StartRun(g), e, n, pr),
                   e, Fetch(PrRemoteName(n), pr.head.ref)),
              e,
              CheckoutNew(PrRemoteName(n), TrackingRef(PrRemoteName(n), pr.head.ref)),
              Checkout(PrRemoteName(n)),
              ResetHard(TrackingRef(PrRemoteName(n), pr.head.ref)))

\* Mutant (C10): the same-repo branch created first, as checkoutPR does.
GitHubStyleCreateFirst(g, e, pr) ==
  TryCatch(Exec(StartRun(g), e, Fetch(S_origin, pr.head.ref)),
           e,
           CheckoutNew(pr.head.ref, TrackingRef(S_origin, pr.head.ref)),
           Checkout(pr.head.ref))

\* checkoutPRGitHubStyle, same-repo PR.
GitHubStyleSameRepo(g, e, pr) ==
  TryCatch(Exec(StartRun(g), e, Fetch(S_origin, pr.head.ref)),
           e,
           Checkout(pr.head.ref),
           CheckoutNew(pr.head.ref, TrackingRef(S_origin, pr.head.ref)))

\* checkoutPRGitHubStyle: the git commands run once the pull request is known.
CheckoutPRGitHubStyleCommands(g, e, n, pr, info) ==
  IF IsSameRepo(pr, info)
  THEN GitHubStyleSameRepo(g, e, pr)
  ELSE GitHubStyleFork(g, e, n, pr)

\* checkoutPRGitHubStyle: what 'GitHub style checkout details' logs.
GitHubStyleDetails(pr, info) ==
  [targetBranchName |-> IF IsSameRepo(pr, info) THEN pr.head.ref ELSE ForkBranchLabel(pr),
   remoteUrl |-> IF IsSameRepo(pr, info) THEN S_origin ELSE CloneUrlOrEmpty(pr),
   isFromFork |-> ~IsSameRepo(pr, info)]

\* The git commands of a checkout in the given mode.
CheckoutCommands(mode, g, e, n, pr, info) ==
  IF mode = "checkoutPR"
  THEN CheckoutPRCommands(g, e, n, pr, info)
  ELSE CheckoutPRGitHubStyleCommands(g, e, n, pr, info)

\* ------------------------------------------------------------------------
\* The checkout handlers of the dashboard

\* Most checkout messages in one behaviour.
MaxCheckouts == 2

S_main == <<"m", "a", "i", "n">>
S_fix_123 == <<"f", "i", "x", "-", "1", "2", "3">>
S_feature_x == <<"f", "e", "a", "t", "u", "r", "e", "-", "x">>
S_contributor == <<"c", "o", "n", "t", "r", "i", "b", "u", "t", "o", "r">>
S_Acme == <<"A", "c", "m", "e">>

\* origin, spelled as GitHub spells the repository and with another case.
Url_canonical == Url_https
Url_other_case ==
  S_https \o S_githubcom \o <<"/">> \o S_Acme \o <<"/">> \o S_widgets \o S_dotgit

\* The repository on GitHub and a fork of it.
Repo_base ==
  [full_name |-> S_acme \o <<"/">> \o S_widgets,
   owner |-> [login |-> S_acme],
   clone_url |-> Url_canonical]

Repo_fork ==
  [full_name |-> S_contributor \o <<"/">> \o S_widgets,
   owner |-> [login |-> S_contributor],
   clone_url |-> S_https \o S_githubcom \o <<"/">> \o S_contributor
                   \o <<"/">> \o S_widgets \o S_dotgit]

\* prResponse.data, as far as the checkouts read it (and the base repository,
\* which they do not read).
PullRequest(ref, repo) ==
  [head |-> [ref |-> ref, repo |-> repo], base |-> [repo |-> Repo_base]]

\* The pull requests of the repository: one from a branch of the repository
\* itself, one from a fork with a head ref of the same name, one whose fork
\* is deleted, one from a fork.
PullNumbers == {1, 2, 3, 42}

PullRequests ==
  [n \in PullNumbers |->
     CASE n = 1 -> PullRequest(S_fix_123, Repo_base)
       [] n = 2 -> PullRequest(S_fix_123, Repo_fork)
       [] n = 3 -> PullRequest(S_feature_x, NULL)
       [] n = 42 -> PullRequest(S_feature_x, Repo_fork)]

\* What can go wrong with the git commands of one checkout: nothing, the
\* configuration is read-only, the network is down, the working tree cannot
\* be switched.
GitEnvironments ==
  {[remoteFails |-> x = 1, fetchFails |-> x = 2, checkoutFails |-> x = 3] : x \in 0..3}

NoEnvironment == [remoteFails |-> FALSE, fetchFails |-> FALSE, checkoutFails |-> FALSE]

\* The repositories a behaviour starts in: a clone with origin, on main, with
\* or without a local branch of the developer's own called fix-123.
InitialRepositories ==
  {[remotes |-> <<[name |-> S_origin, url |-> u]>>,
    branches |-> [b \in bs |-> LocalTip],
    head |-> S_main,
    tracking |-> {TrackingRef(S_origin, S_main)}] :
     u \in {Url_canonical, Url_other_case},
     bs \in {{S_main}, {S_main, S_fix_123}}}

Modes == {"checkoutPR", "checkoutPRGitHub"}

\* A finished checkout: what it was, what it saw, the git commands it ran,
\* the error it threw and the message the user got.
Finished(mode, n, info, pr, details, e, before, run, error, message) ==
  [mode |-> mode, prNumber |-> n, repoInfo |-> info, pr |-> pr,
   details |-> details, env |-> e, before |-> before,
   cmds |-> run.cmds, failed |-> run.thrown, error |-> error, message |-> message]

NoCheckout ==
  Finished("none", 0, NULL, NULL, NULL, NoEnvironment, NULL, StartRun(NULL), "", "")

\* No checkout has been asked for.
CheckoutIdle ==
  /\ started = 0
  /\ inflight = EmptyBag
  /\ last = NoCheckout

\* await this.getRepositoryInfo(workspacePath), on the repository as it is.
ResolvedIdentity(isRepo, g) == GetRepositoryInfo(isRepo, FALSE, RemoteV(g)).ret

\* The checkout ends before any promise is awaited.
EndsAtOnce(mode, n, g, error, message) ==
  Finished(mode, n, NULL, NULL, NULL, NoEnvironment, g, StartRun(g), error, message)

\* Mutant (C22): the session is asked for, and refused, before the identity
\* of the repository is looked at.
ReceiveAuthFirst(info) ==
  \E mode \in Modes, n \in PullNumbers :
    /\ last' = EndsAtOnce(mode, n, git, "GitHub authentication failed",
                          "Error checking out PR")
    /\ UNCHANGED inflight

\* _checkoutPR or _checkoutPRGitHubStyle up to the first promise that is not
\* yet settled, info being what getRepositoryInfo returns.
ReceiveWith(info) ==
  \E mode \in Modes, n \in PullNumbers, folder \in BOOLEAN :
    IF ~folder
    THEN /\ last' = EndsAtOnce(mode, n, git, "", "No workspace folder found")
         /\ UNCHANGED inflight
    ELSE IF info = NULL
    THEN /\ last' = EndsAtOnce(mode, n, git,
                               "Could not determine repository information",
                               "Error checking out PR")
         /\ UNCHANGED inflight
    ELSE /\ inflight' = inflight (+) SetToBag({[mode |-> mode, prNumber |-> n,
                                                 repoInfo |-> info,
                                                 pc |-> IF octokit THEN "lookup"
                                                        ELSE "auth"]})
         /\ UNCHANGED last

\* _handleMessage, case 'checkoutPR' / 'checkoutPRGitHub'.
ReceiveCheckout ==
  /\ started < MaxCheckouts
  /\ started' = started + 1
  /\ ReceiveWith(ResolvedIdentity(isGitRepo, git))
  /\ UNCHANGED <<git, octokit, rvars, xvars>>

\* The bag without one copy of o, and with one copy of o at position pc.
Without(bag, o) == bag (-) SetToBag({o})
Moved(bag, o, pc) == Without(bag, o) (+) SetToBag({[o EXCEPT !.pc = pc]})

\* ensureAuthenticated, when this.octokit was null: initializeOctokit has
\* awaited getSession, which granted a session or not.
Authenticate ==
  \E o \in BagToSet(inflight), granted \in BOOLEAN :
    /\ o.pc = "auth"
    /\ octokit' = (octokit \/ granted)
    /\ IF octokit \/ granted
       THEN /\ inflight' = Moved(inflight, o, "lookup")
            /\ UNCHANGED last
       ELSE /\ inflight' = Without(inflight, o)
            /\ last' = EndsAtOnce(o.mode, o.prNumber, git,
                                  "GitHub authentication failed",
                                  "Error checking out PR")
    /\ UNCHANGED <<git, started, rvars, xvars>>

\* checkoutPR: what 'Creating local branch' logs, once the fetch is done.
StandardDetails(run, n, pr, info) ==
  IF \E k \in 1..Len(run.cmds) : run.cmds[k].op = "checkout -b"
  THEN [localBranchName |-> StandardBranchName(n, pr),
        remoteName |-> StandardRemoteName(pr, info),
        branchName |-> pr.head.ref]
  ELSE NULL

DetailsOf(mode, run, n, pr, info) ==
  IF mode = "checkoutPR"
  THEN StandardDetails(run, n, pr, info)
  ELSE GitHubStyleDetails(pr, info)

\* showInformationMessage of the handler of the mode.
SuccessMessage(mode) ==
  IF mode = "checkoutPR"
  THEN "Checked out PR"
  ELSE "Checked out PR using GitHub CLI style"

\* The checkout o has run its git commands in environment e.
GitDone(o, pr, e, before, run) ==
  Finished(o.mode, o.prNumber, o.repoInfo, pr,
           DetailsOf(o.mode, run, o.prNumber, pr, o.repoInfo),
           e, before, run,
           IF Running(run) THEN "" ELSE "Command failed",
           IF Running(run) THEN SuccessMessage(o.mode) ELSE "Error checking out PR")

\* Mutant (C18): a failed checkout puts the repository back as it was.
RunWithRollback(o, g, e, pr) ==
  IF Running(CheckoutCommands(o.mode, g, e, o.prNumber, pr, o.repoInfo))
  THEN CheckoutCommands(o.mode, g, e, o.prNumber, pr, o.repoInfo)
  ELSE [CheckoutCommands(o.mode, g, e, o.prNumber, pr, o.repoInfo) EXCEPT !.git = g]

\* The git commands of checkout o on pull request pr.
RunOf(o, g, e, pr) ==
  CheckoutCommands(o.mode, g, e, o.prNumber, pr, o.repoInfo)

\* Mutant (C21): the git commands go through an asynchronous exec: the first
\* one runs now and the checkout resumes in a later turn of the event loop.
CompleteCheckoutStepwise ==
  \E o \in BagToSet(inflight), e \in GitEnvironments :
    /\ o.pc = "lookup"
    /\ git' = Exec(StartRun(git), e,
                   RunOf(o, git, e, PullRequests[o.prNumber]).cmds[1]).git
    /\ UNCHANGED <<inflight, last, octokit, started, rvars, xvars>>

\* octokit.rest.pulls.get settles: rejected, the checkout throws; resolved,
\* the checkout runs all its git commands (execSync) and the handler shows
\* its message.
CompleteCheckout ==
  \E o \in BagToSet(inflight) :
    /\ o.pc = "lookup"
    /\ inflight' = Without(inflight, o)
    /\ \/ /\ last' = [EndsAtOnce(o.mode, o.prNumber, git,
                                 "Request failed", "Error checking out PR")
                        EXCEPT !.repoInfo = o.repoInfo]
          /\ UNCHANGED git
       \/ \E e \in GitEnvironments :
            /\ git' = RunOf(o, git, e, PullRequests[o.prNumber]).git
            /\ last' = GitDone(o, PullRequests[o.prNumber], e, git,
                               RunOf(o, git, e, PullRequests[o.prNumber]))
    /\ UNCHANGED <<octokit, started, rvars, xvars>>

InitCheckout ==
  /\ isGitRepo \in BOOLEAN
  /\ remoteThrows = FALSE
  /\ remoteLines = <<>>
  /\ rpc = "idle"
  /\ repoInfo = NULL
  /\ execLog = <<>>
  /\ debugLog = ""
  /\ git \in InitialRepositories
  /\ octokit \in BOOLEAN
  /\ CheckoutIdle
  /\ SessionIdle
  /\ PanelIdle
  /\ ChangesIdle

NextCheckout == ReceiveCheckout \/ Authenticate \/ CompleteCheckout

SpecCheckout == InitCheckout /\ [][NextCheckout]_vars

\* ------------------------------------------------------------------------
\* The resolver run on every listing

InitResolve ==
  /\ isGitRepo \in BOOLEAN
  /\ remoteThrows \in BOOLEAN
  /\ remoteLines \in Listings
  \* outside a repository, and when the listing fails, there are no lines
  /\ (~isGitRepo \/ remoteThrows) => remoteLines = <<>>
  /\ ~isGitRepo => ~remoteThrows
  /\ rpc = "idle"
  /\ repoInfo = NULL
  /\ execLog = <<>>
  /\ debugLog = ""
  \* the repository is given by its listing; no checkout is asked for
  /\ git = NULL
  /\ octokit = FALSE
  /\ CheckoutIdle
  /\ SessionIdle
  /\ PanelIdle
  /\ ChangesIdle

\* await this.githubService.getRepositoryInfo(workspaceFolder.uri.fsPath)
CallGetRepositoryInfo ==
  /\ rpc = "idle"
  /\ LET r == GetRepositoryInfo(isGitRepo, remoteThrows, remoteLines)
     IN  /\ repoInfo' = r.ret
         /\ execLog' = r.exec
         /\ debugLog' = r.log
  /\ rpc' = "done"
  /\ UNCHANGED <<isGitRepo, remoteThrows, remoteLines, cvars, xvars>>

NextResolve == CallGetRepositoryInfo

SpecResolve == InitResolve /\ [][NextResolve]_vars

\* ------------------------------------------------------------------------
\* Properties of getRepositoryInfo (checked under SpecResolve)

ResolveDone == rpc = "done" /\ isGitRepo /\ ~remoteThrows

\* s ends with t.
EndsWith(s, t) == Len(t) <= Len(s) /\ LitAt(s, Len(s) - Len(t) + 1, t)

IsFetchMarked(line) == EndsWith(line, <<" ">> \o S_fetch)
IsPushMarked(line) == EndsWith(line, <<" ">> \o S_push)

\* The lines of the listing that are marked (fetch), in order.
FetchMarked(ls) == SelectSeq(ls, IsFetchMarked)

\* The owners and repository names that occur in the listings.
Owners == {S_acme, S_octo, S_fork, S_foo, S_team \o <<":">> \o S_acme}
Repos == {S_widgets, S_hello, S_bar}
Aliases == {S_gh}
RemoteNames == {S_origin, S_upstream}

\* The line is a fetch line whose URL ends in github.com[:/]o/r or
\* github.com[:/]o/r.git
DirectUrlLine(line, o, r) ==
  \E sep \in {":", "/"}, g \in {<<>>, S_dotgit} :
    EndsWith(line, S_githubcom \o <<sep>> \o o \o <<"/">> \o r \o g \o <<" ">> \o S_fetch)

\* No line before index i is a fetch line that one of the two rules accepts.
NoEarlierMatch(ls, i) ==
  \A j \in 1..(i - 1) : IsFetchMarked(ls[j]) => MatchRemote(ls[j]) = NULL

\* C1 (as amended): when the earliest fetch line that either rule accepts has a
\* URL github.com[:/]OWNER/REPO with an optional .git suffix, getRepositoryInfo
\* returns exactly {owner: OWNER, repo: REPO}, the .git suffix removed.
C1_EarliestDirectLine ==
  ResolveDone =>
    \A i \in 1..Len(remoteLines), o \in Owners, r \in Repos :
      (DirectUrlLine(remoteLines[i], o, r) /\ NoEarlierMatch(remoteLines, i))
        => repoInfo = [owner |-> o, repo |-> r]

\* C1 as stated: the github.com line decides the result wherever it sits in the
\* listing and whatever the other lines are.
C1_AnyDirectLine ==
  ResolveDone =>
    \A i \in 1..Len(remoteLines), o \in Owners, r \in Repos :
      DirectUrlLine(remoteLines[i], o, r) => repoInfo = [owner |-> o, repo |-> r]

\* C1 witness: a github.com line with a .git suffix, after a fetch line that no
\* rule accepts, has been resolved.
C1_Witness ==
  /\ ResolveDone
  /\ Len(remoteLines) = 2
  /\ remoteLines[1] = RemoteLine(S_origin, Url_bare_gitlab, S_fetch)
  /\ remoteLines[2] = RemoteLine(S_upstream, Url_https, S_fetch)
  /\ repoInfo = [owner |-> S_acme, repo |-> S_widgets]

\* C2: with `origin  git@gitlab.com:foo/bar.git (fetch)` as the only fetch
\* remote, getRepositoryInfo returns no identity.
C2_GitlabRejected ==
  (ResolveDone /\ FetchMarked(remoteLines) = <<RemoteLine(S_origin, Url_gitlab, S_fetch)>>)
    => repoInfo = NULL

\* C3: when the only fetch remote is git@ALIAS:OWNER/REPO.git, or
\* ALIAS:OWNER/REPO.git, with ALIAS free of dots, gitlab and bitbucket,
\* getRepositoryInfo returns {owner: OWNER, repo: REPO}.
C3_AliasRemote ==
  ResolveDone =>
    \A n \in RemoteNames, a \in Aliases, o \in Owners, r \in Repos, user \in {<<>>, S_git_at} :
      (/\ ~Includes(o, <<":">>)
       /\ FetchMarked(remoteLines) =
            <<RemoteLine(n, user \o a \o <<":">> \o o \o <<"/">> \o r \o S_dotgit, S_fetch)>>)
        => repoInfo = [owner |-> o, repo |-> r]

\* C3 witness: git@gh:fork/widgets.git, the only fetch remote, has been resolved.
C3_Witness ==
  /\ ResolveDone
  /\ FetchMarked(remoteLines) = <<RemoteLine(S_origin, Url_alias, S_fetch)>>
  /\ repoInfo = [owner |-> S_fork, repo |-> S_widgets]
  /\ debugLog = "Repository info found via SSH alias"

\* The identity one line yields: the direct rule first, then the alias rule.
DirectAccepts(line) == DirectMatch(line) # NoMatch
AliasAccepts(line) ==
  AliasMatch(line) # NoMatch /\ LooksLikeGitHubAlias(AliasMatch(line)[1])
LineIdentity(line) ==
  IF DirectAccepts(line)
  THEN [owner |-> DirectMatch(line)[1], repo |-> DirectMatch(line)[2]]
  ELSE [owner |-> AliasOwner(AliasMatch(line)[2]), repo |-> AliasMatch(line)[3]]

\* C4: the result is the identity of the earliest fetch line that one of the
\* two rules accepts, whatever its remote name and whichever rule accepts it;
\* within that line the direct rule goes first.
C4_EarliestLineWins ==
  ResolveDone =>
    LET F == FetchMarked(remoteLines)
        hits == {i \in 1..Len(F) : DirectAccepts(F[i]) \/ AliasAccepts(F[i])}
    IN  IF hits = {} THEN repoInfo = NULL
        ELSE repoInfo = LineIdentity(F[MinOf(hits)])

\* C4 witness: an alias line named upstream before a github.com line named
\* origin; the alias line has won.
C4_Witness ==
  /\ ResolveDone
  /\ remoteLines = <<RemoteLine(S_upstream, Url_alias, S_fetch),
                     RemoteLine(S_origin, Url_https, S_fetch)>>
  /\ repoInfo = [owner |-> S_fork, repo |-> S_widgets]

\* The listing without its line i, and with its line i replaced.
WithoutLine(ls, i) == [k \in 1..(Len(ls) - 1) |-> IF k < i THEN ls[k] ELSE ls[k + 1]]
WithLine(ls, i, l) == [ls EXCEPT ![i] = l]

\* C5: removing or changing a (push) line leaves the result unchanged, and a
\* listing with only (push) lines resolves to nothing.
C5_PushLinesIgnored ==
  ResolveDone =>
    /\ \A i \in 1..Len(remoteLines) :
         IsPushMarked(remoteLines[i]) =>
           /\ GetRepositoryInfo(isGitRepo, remoteThrows, WithoutLine(remoteLines, i)).ret
                = repoInfo
           /\ \A l \in PushLines :
                GetRepositoryInfo(isGitRepo, remoteThrows, WithLine(remoteLines, i, l)).ret
                  = repoInfo
    /\ (\A i \in 1..Len(remoteLines) : IsPushMarked(remoteLines[i])) => repoInfo = NULL

\* C5 witness: a github.com push line before an alias fetch line; the fetch
\* line has decided the result.
C5_Witness ==
  /\ ResolveDone
  /\ remoteLines = <<RemoteLine(S_origin, Url_https, S_push),
                     RemoteLine(S_origin, Url_alias, S_fetch)>>
  /\ repoInfo = [owner |-> S_fork, repo |-> S_widgets]

\* What getRepositoryInfo does in a git repository without any remote.
NoGitHubRemote == GetRepositoryInfo(TRUE, FALSE, <<>>)

C7_NonEmptyIdentity ==
  rpc = "done" =>
    \/ repoInfo = NULL
    \/ /\ DOMAIN repoInfo = {"owner", "repo"}
       /\ repoInfo.owner # <<>>
       /\ repoInfo.repo # <<>>

\* C7 witness: a segment that ends in a colon (git@gh:/widgets.git) has been
\* resolved to an identity.
C7_Witness ==
  /\ ResolveDone
  /\ remoteLines = <<RemoteLine(S_origin, Url_colon_end, S_fetch)>>
  /\ repoInfo = [owner |-> S_gh \o <<":">>, repo |-> S_widgets]

\* ------------------------------------------------------------------------
\* Properties of the checkouts (checked under SpecCheckout)

\* The checkout that finished last got its pull request and ran git commands.
RanGit == last.pr # NULL

\* The head repository of that pull request is the local identity, letter
\* for letter.
HeadIsLocalIdentity ==
  /\ last.pr.head.repo # NULL
  /\ last.pr.head.repo.full_name
       = last.repoInfo.owner \o <<"/">> \o last.repoInfo.repo

\* The commands of that checkout that add a remote or set its URL.
RemoteCommands ==
  {k \in 1..Len(last.cmds) : last.cmds[k].op \in {"remote add", "remote set-url"}}

\* That checkout went the same-repo way: it began by fetching the head ref
\* from origin.
TreatedAsSameRepo ==
  /\ last.cmds[1] = [op |-> "fetch", name |-> S_origin, arg |-> last.pr.head.ref]
  /\ RemoteCommands = {}

\* That checkout went the fork way: it began by adding a remote.
TreatedAsFork == last.cmds[1].op = "remote add"

\* C8: in both checkout modes a pull request is handled as same-repo exactly
\* when its head repository's full name equals owner/repo of the local
\* identity, compared case-sensitively, and as a fork otherwise, also when the
\* head repository is missing; the base repository plays no part.
C8_Classification ==
  RanGit =>
    /\ HeadIsLocalIdentity => TreatedAsSameRepo
    /\ ~HeadIsLocalIdentity => TreatedAsFork
    /\ last.mode = "checkoutPRGitHub" => last.details.isFromFork = ~HeadIsLocalIdentity

\* A pull request whose head is its base repository is handled as a fork,
\* because the local identity spells the owner with another case.
C8_Witness ==
  /\ RanGit
  /\ last.pr.head.repo # NULL
  /\ last.pr.head.repo.full_name = last.pr.base.repo.full_name
  /\ last.repoInfo.owner = S_Acme
  /\ TreatedAsFork

\* pr-N-R for the checkout that finished last.
PrNumberRefBranch ==
  S_pr_dash \o ToDec(last.prNumber) \o <<"-">> \o last.pr.head.ref

\* A standard checkout of a same-repo pull request ran its git commands.
StandardSameRepo == RanGit /\ last.mode = "checkoutPR" /\ HeadIsLocalIdentity

\* The branches named by the checkout commands of that checkout.
CheckedOutNames ==
  {last.cmds[k].name : k \in {j \in 1..Len(last.cmds) :
                                last.cmds[j].op \in {"checkout", "checkout -b"}}}

OtherModeRun ==
  CheckoutCommands(IF last.mode = "checkoutPR" THEN "checkoutPRGitHub" ELSE "checkoutPR",
                   last.before, last.env, last.prNumber, last.pr, last.repoInfo)

LastRun == [git |-> git, cmds |-> last.cmds, thrown |-> last.failed]

StandardRun == IF last.mode = "checkoutPR" THEN LastRun ELSE OtherModeRun

GitHubStyleRun == IF last.mode = "checkoutPR" THEN OtherModeRun ELSE LastRun

StandardFork == RanGit /\ last.mode = "checkoutPR" /\ ~HeadIsLocalIdentity

\* pr-N for the checkout that finished last.
PrNumberName == <<"p", "r", "-">> \o ToDec(last.prNumber)

\* The remotes named by the remote and fetch commands of that checkout.
RemotesNamed ==
  {last.cmds[k].name : k \in {j \in 1..Len(last.cmds) :
                                last.cmds[j].op \in {"remote add", "remote set-url", "fetch"}}}

\* The remote the standard mode uses for every fork.
SharedForkRemote == <<"p", "r", "-", "r", "e", "m", "o", "t", "e">>

\* The URL the repository has configured for remote n, <<>> when it has none.
ConfiguredUrl(g, n) ==
  IF \E i \in 1..Len(g.remotes) : g.remotes[i].name = n
  THEN g.remotes[CHOOSE i \in 1..Len(g.remotes) : g.remotes[i].name = n].url
  ELSE <<>>

GitHubStyleForkRan == RanGit /\ last.mode = "checkoutPRGitHub" /\ ~HeadIsLocalIdentity

\* The fetch commands of the checkout that finished last.
FetchCommands ==
  {last.cmds[k] : k \in {j \in 1..Len(last.cmds) : last.cmds[j].op = "fetch"}}

\* C12: the GitHub-style checkout of a fork pull request with number N, head
\* ref R and head owner login L fetches R from remote pr-N, and the local
\* branch it creates or checks out is named L:R.
C12_BranchNamedLoginRef ==
  (GitHubStyleForkRan /\ last.pr.head.repo # NULL) =>
    /\ FetchCommands \subseteq {Fetch(PrNumberName, last.pr.head.ref)}
    /\ CheckedOutNames
         \subseteq {last.pr.head.repo.owner.login \o <<":">> \o last.pr.head.ref}
    /\ last.error = "" =>
         git.head = last.pr.head.repo.owner.login \o <<":">> \o last.pr.head.ref

C14_NoCommandWithoutCloneUrl ==
  (RanGit /\ last.pr.head.repo = NULL) =>
    /\ last.error # ""
    /\ last.cmds = <<>>
    /\ git = last.before

\* A fork checkout ran its git commands.
ForkRan == RanGit /\ ~HeadIsLocalIdentity

\* The remote that checkout registers and the URL text it registers.
UpsertName == last.cmds[1].name
UpsertUrl == last.cmds[1].arg

\* After that checkout the remote is configured with that URL.
Registered == UpsertUrl # <<>> /\ ConfiguredUrl(git, UpsertName) = UpsertUrl

\* The remote-upsert step of that checkout, run once more on the repository
\* as it is now, in environment e.
UpsertAgain(e) ==
  IF last.mode = "checkoutPR"
  THEN StandardRemoteStep(StartRun(git), e, last.pr, last.repoInfo)
  ELSE GitHubStyleRemoteStep(StartRun(git), e, last.prNumber, last.pr)

\* C15: the remote-upsert step of a fork checkout is idempotent. Once a run
\* has registered the remote, running the step again with the same name and
\* URL does not fail: `git remote add` fails because the remote exists,
\* `git remote set-url` updates it, and the configured remotes are the same
\* after two runs as after one. A checkout that starts with the remote
\* already registered under that URL goes the same way.
C15_UpsertIdempotent ==
  ForkRan =>
    /\ Registered =>
         \A e \in {x \in GitEnvironments : ~x.remoteFails} :
           /\ Running(UpsertAgain(e))
           /\ UpsertAgain(e).cmds = <<RemoteAdd(UpsertName, UpsertUrl),
                                       RemoteSetUrl(UpsertName, UpsertUrl)>>
           /\ UpsertAgain(e).git.remotes = git.remotes
    /\ (ConfiguredUrl(last.before, UpsertName) = UpsertUrl
          /\ UpsertUrl # <<>> /\ ~last.env.remoteFails) =>
         /\ Len(last.cmds) >= 2
         /\ last.cmds[2] = RemoteSetUrl(UpsertName, UpsertUrl)
         /\ last.failed \notin {<<last.cmds[1]>>, <<last.cmds[2]>>}
         /\ git.remotes = last.before.remotes

\* The same fork pull request has been checked out a second time: the remote
\* was there with the fork's URL, `remote add` failed, `remote set-url` ran
\* and the checkout went on to fetch.
C15_Witness ==
  /\ ForkRan
  /\ last.pr.head.repo # NULL
  /\ ConfiguredUrl(last.before, UpsertName) = last.pr.head.repo.clone_url
  /\ Len(last.cmds) >= 3
  /\ last.cmds[2] = RemoteSetUrl(UpsertName, last.pr.head.repo.clone_url)
  /\ last.cmds[3].op = "fetch"
  /\ git.remotes = last.before.remotes

\* The positions in the command log of the checkout that finished last of
\* its fetches and of its branch commands.
FetchPositions == {k \in 1..Len(last.cmds) : last.cmds[k].op = "fetch"}

BranchPositions ==
  {k \in 1..Len(last.cmds) :
     last.cmds[k].op \in {"checkout", "checkout -b", "reset --hard"}}

\* The handler has told the user that the checkout succeeded.
SuccessReported ==
  last.message \in {"Checked out PR", "Checked out PR using GitHub CLI style"}

\* C16: the steps of every checkout come in the order remote upsert, fetch,
\* branch. No fetch is issued before the remote commands of a fork checkout,
\* no branch command is issued before a fetch of the head ref has succeeded,
\* and success is reported only once the branch step has succeeded.
C16_StepOrder ==
  /\ RanGit =>
       /\ \A k \in RemoteCommands : \A j \in FetchPositions \cup BranchPositions : k < j
       /\ ~HeadIsLocalIdentity => \A j \in FetchPositions : 1 \in RemoteCommands /\ 1 < j
       /\ \A k \in BranchPositions :
            \E j \in FetchPositions :
              /\ j < k
              /\ last.cmds[j].arg = last.pr.head.ref
              /\ last.failed # <<last.cmds[j]>>
              /\ TrackingRef(last.cmds[j].name, last.pr.head.ref) \in git.tracking
  /\ SuccessReported =>
       /\ RanGit
       /\ last.error = ""
       /\ last.failed = <<>>
       /\ BranchPositions # {}
       /\ Len(last.cmds) \in BranchPositions
       /\ git.head \in CheckedOutNames

\* A fork checkout has reported success after remote add, fetch and
\* checkout -b, in that order.
C16_Witness ==
  /\ RanGit
  /\ SuccessReported
  /\ Len(last.cmds) = 3
  /\ last.cmds[1].op = "remote add"
  /\ last.cmds[2].op = "fetch"
  /\ last.cmds[3].op = "checkout -b"
  /\ git.head = last.cmds[3].name

\* The remote upsert of the fork checkout that finished last failed: `git
\* remote add` threw and so did `git remote set-url`.
UpsertFailed ==
  /\ Len(last.cmds) >= 2
  /\ last.cmds[1].op = "remote add"
  /\ last.cmds[2].op = "remote set-url"
  /\ ~Succeeds(last.before, last.env, last.cmds[1])
  /\ ~Succeeds(last.before, last.env, last.cmds[2])

\* The fetch of that checkout failed.
FetchFailed == \E k \in FetchPositions : last.failed = <<last.cmds[k]>>

FailedAfterUpsert ==
  /\ ForkRan
  /\ last.error # ""
  /\ \/ Succeeds(last.before, last.env, last.cmds[1])
     \/ /\ Len(last.cmds) >= 2
        /\ last.cmds[2].op = "remote set-url"
        /\ Succeeds(last.before, last.env, last.cmds[2])

\* The same checkout run once more on the repository as it is now.
Retry(e) ==
  CheckoutCommands(last.mode, git, e, last.prNumber, last.pr, last.repoInfo)

\* C18: a checkout that fails after its remote was registered rolls nothing
\* back. The remote stays configured with the URL the checkout gave it, and a
\* retry of the same checkout finds it, fails in `git remote add`, re-points
\* it with `git remote set-url` and goes on to the fetch.
C18_NoRollback ==
  FailedAfterUpsert =>
    /\ ConfiguredUrl(git, UpsertName) = UpsertUrl
    /\ \A e \in {x \in GitEnvironments : ~x.remoteFails} :
         /\ Len(Retry(e).cmds) >= 3
         /\ Retry(e).cmds[1] = RemoteAdd(UpsertName, UpsertUrl)
         /\ Retry(e).cmds[2] = RemoteSetUrl(UpsertName, UpsertUrl)
         /\ Retry(e).cmds[3] = Fetch(UpsertName, last.pr.head.ref)
         /\ Retry(e).git.remotes = git.remotes

\* A fork checkout added its remote and then failed in the fetch; the remote
\* is still configured with the fork's clone URL.
C18_Witness ==
  /\ FailedAfterUpsert
  /\ last.pr.head.repo # NULL
  /\ ConfiguredUrl(last.before, UpsertName) = <<>>
  /\ last.failed = <<Fetch(UpsertName, last.pr.head.ref)>>
  /\ ConfiguredUrl(git, UpsertName) = last.pr.head.repo.clone_url

\* The checkout that finished last succeeded.
CheckoutSucceeded == RanGit /\ last.error = ""

\* remoteName/headRef of that checkout: the ref its fetch updated.
FetchedRef ==
  TrackingRef((CHOOSE c \in FetchCommands : TRUE).name, last.pr.head.ref)

\* C19: in both modes, for fork and same-repo pull requests alike, a
\* successful checkout that finds its local branch already there checks it
\* out and then hard-resets it to remoteName/headRef, so that after every
\* successful checkout the checked-out branch points at the fetched ref and
\* commits of its own are gone.
C19_ExistingBranchReset ==
  CheckoutSucceeded =>
    /\ git.head \in DOMAIN last.before.branches =>
         /\ Len(last.cmds) >= 2
         /\ last.cmds[Len(last.cmds) - 1] = Checkout(git.head)
         /\ last.cmds[Len(last.cmds)] = ResetHard(FetchedRef)
    /\ git.branches[git.head] = FetchedRef

\* The positions of the `git checkout -b` commands of the checkout that
\* finished last whose failure was caught: a fallback command follows.
CaughtCreations ==
  {k \in 1..(Len(last.cmds) - 1) :
     /\ last.cmds[k].op = "checkout -b"
     /\ last.cmds[k + 1].op = "checkout"}

\* C20: a failed `git checkout -b` is swallowed and followed by the fallback
\* only when it failed because the branch already exists; when it fails for
\* another reason no fallback command is run and the checkout ends with that
\* failure.
C20_FallbackOnlyWhenBranchExists ==
  RanGit =>
    /\ \A k \in CaughtCreations : last.cmds[k].name \in DOMAIN last.before.branches
    /\ \A k \in 1..Len(last.cmds) :
         (/\ last.cmds[k].op = "checkout -b"
          /\ last.cmds[k].name \notin DOMAIN last.before.branches
          /\ last.env.checkoutFails)
           => /\ k = Len(last.cmds)
              /\ last.failed = <<last.cmds[k]>>

\* ------------------------------------------------------------------------
\* Properties of the handlers (checked under SpecCheckout)

\* The repository after the commands cmds were issued one after the other
\* in environment e, starting from g, with nothing else in between.
RECURSIVE Replay(_, _, _)
Replay(g, e, cmds) ==
  IF cmds = <<>> THEN g
  ELSE Replay(IF Succeeds(g, e, Head(cmds)) THEN Effect(g, Head(cmds)) ELSE g,
              e, Tail(cmds))

\* Another checkout was received and has not run its git commands yet.
OtherCheckoutPending == \E o \in BagToSet(inflight) : o.pc \in {"auth", "lookup"}

\* C21: the git commands of two checkouts never interleave: whenever the
\* repository changes, the step is one checkout running all its commands, from
\* the first to the one that finishes or fails it, on the repository as the
\* step found it, whatever other checkouts are in flight.
C21_CommandsNeverInterleave ==
  [][git' # git =>
       /\ last'.pr # NULL
       /\ last'.before = git
       /\ last'.cmds # <<>>
       /\ git' = Replay(git, last'.env, last'.cmds)
       /\ Cardinality(BagToSet(inflight)) >= 1
       /\ BagCardinality(inflight') = BagCardinality(inflight) - 1]_vars

\* A checkout ran several git commands while another one was in flight.
C21_Witness ==
  /\ RanGit
  /\ Len(last.cmds) >= 3
  /\ last.before # git
  /\ OtherCheckoutPending

\* A checkout message arrives in a workspace folder whose repository has no
\* identity.
UnresolvedReceived ==
  /\ started' = started + 1
  /\ ResolvedIdentity(isGitRepo, git) = NULL
  /\ last'.message # "No workspace folder found"

\* C22: a checkout of either mode in a repository without identity ends in
\* the step that receives it, with the error that the repository could not be
\* determined shown as an error message; no session is asked for, no pull
\* request is looked up, no git command runs, and the repository is as before.
C22_UnresolvedFailsFirst ==
  [][UnresolvedReceived =>
       /\ last'.mode \in Modes
       /\ last'.error = "Could not determine repository information"
       /\ last'.message = "Error checking out PR"
       /\ last'.pr = NULL /\ last'.cmds = <<>>
       /\ last'.before = git /\ git' = git
       /\ octokit' = octokit
       /\ inflight' = inflight]_vars

\* A GitHub-style checkout failed on the identity, with no session held.
C22_Witness ==
  /\ last.error = "Could not determine repository information"
  /\ last.mode = "checkoutPRGitHub"
  /\ ~isGitRepo /\ ~octokit
  /\ last.before = git /\ inflight = EmptyBag

\* ------------------------------------------------------------------------
\* The API client of the service and the handlers that use it, in a
\* workspace folder whose repository has an identity on GitHub

\* Most messages handled in one behaviour.
MaxMessages == 2

\* new Octokit({ auth: session.accessToken })
Client(s) == [auth |-> s]

\* The session a client was built from (0: the handle is null).
AuthOf(o) == IF o = NULL THEN 0 ELSE o.auth

\* Any of the four functions _loadGitHubData hands to Promise.all: each asks
\* ensureAuthenticated and sends one request, and Promise.all does not tell
\* them apart.
LoadedTogether == "getCurrentUser|getIssues|getPullRequests|getRepositoryStats"

\* The requests a service function sends, in the order of its statements;
\* checkRepositoryAccess sends the request of getCurrentUser as its second.
Requests(fn) ==
  CASE fn = "getCurrentUser" -> <<"users.getAuthenticated">>
    [] fn = "getIssues" -> <<"issues.listForRepo">>
    [] fn = LoadedTogether -> <<"users.getAuthenticated|issues.listForRepo|pulls.list|repos.get">>
    [] fn = "createIssue" -> <<"issues.create">>
    [] fn = "addPRComment" -> <<"issues.createComment">>
    [] fn = "getRecentActivity" -> <<"activity.listRepoEvents", "repos.listCommits">>
    [] fn = "getPRComments" -> <<"pulls.listReviewComments", "issues.listComments">>
    [] fn = "checkRepositoryAccess" ->
         <<"repos.get", "users.getAuthenticated", "repos.getCollaboratorPermissionLevel">>

\* A call of service function fn by the handler of message id: k is the
\* request it awaits (0: getSession), from the session held when getSession
\* was called, held the client its pending call expression has evaluated,
\* part whether Promise.all awaits it, access what checkRepositoryAccess
\* has told the handler.
Frame(id, type, fn, part, access) ==
  [id |-> id, type |-> type, fn |-> fn, k |-> 0, from |-> session, held |-> 0,
   part |-> part, access |-> access]

\* The functions that write to GitHub.
Writes == {"createIssue", "addPRComment"}

\* What the trace keeps of a step of call f: the handler and the function,
\* what happened, whether the handle held a client, the requests the call
\* had sent when it failed, the access a write was sent with.
Ev(f, what, arg, auth) ==
  [type |-> f.type, fn |-> f.fn, what |-> what, arg |-> arg,
   client |-> auth # 0,
   k |-> IF what \in {"null", "throw"} THEN f.k ELSE 0,
   access |-> IF what = "request" THEN f.access ELSE ""]

\* The service and the handlers as a step finds them.
Now == [octokit |-> octokit, calls |-> calls, joins |-> joins, trace |-> trace]

Logged(S, f, what, arg) ==
  [S EXCEPT !.trace = @ \cup {Ev(f, what, arg, AuthOf(S.octokit))}]

\* await client.rest.<request k of f.fn>(...); the trace keeps the writes and
\* what is sent without a client.
Send(S, f, k, client) ==
  [S EXCEPT !.trace = IF f.fn \in Writes \/ client = NULL
                       THEN @ \cup {Ev(f, "request", Requests(f.fn)[k], AuthOf(client))}
                       ELSE @,
            !.calls = @ (+) SetToBag({[f EXCEPT !.k = k]})]

\* Mutant (C29): the function sends its first request without asking
\* ensureAuthenticated.
CallUnchecked(S, f) == Send(S, f, 1, S.octokit)

\* A service function is called: `if (!(await this.ensureAuthenticated()))
\* throw ...` followed by its first request. ensureAuthenticated starts
\* initializeOctokit, which awaits getSession, when the handle is null.
Call(S, f) ==
  IF S.octokit = NULL
  THEN [Logged(S, f, "getSession", "createIfNone") EXCEPT !.calls = @ (+) SetToBag({f})]
  ELSE Send(S, f, 1, S.octokit)

\* _sendMessage, showErrorMessage, showInformationMessage of a handler.
Post(S, f, type) == Logged(S, f, "post", type)
ShowError(S, f, text) == Logged(S, f, "error", text)
ShowInfo(S, f, text) == Logged(S, f, "info", text)

\* _switchAccount after its reload, and _loadGitHubData elsewhere.
Reloaded(S, f) ==
  IF f.type = "switchAccount"
  THEN ShowInfo(S, f, "GitHub account switched successfully")
  ELSE S

\* catch (error) of _loadGitHubData.
LoadFailed(S, f, error) ==
  Reloaded(
    IF error \in {"GitHub authentication failed", "401"}
    THEN ShowError(Post(S, f, "authenticationError"),
                   f, "GitHub authentication failed. Please try switching accounts.")
    ELSE IF error = "403"
    THEN ShowError(Post(S, f, "accessDenied"), f, "Access denied to repository")
    ELSE ShowError(S, f, "Error loading GitHub data"),
    f)

\* Promise.all of _loadGitHubData: the four functions are called one after
\* the other, each up to its first await.
CallTogether(S, f) ==
  [Call(Call(Call(Call(S, Frame(f.id, f.type, LoadedTogether, TRUE, "")),
                  Frame(f.id, f.type, LoadedTogether, TRUE, "")),
             Frame(f.id, f.type, LoadedTogether, TRUE, "")),
        Frame(f.id, f.type, LoadedTogether, TRUE, ""))
     EXCEPT !.joins[f.id] = 4]

\* The handler resumes: the call f it awaited has returned value.
Returned(S, f, value) ==
  IF f.part
  THEN IF S.joins[f.id] = 0 THEN S
       ELSE IF S.joins[f.id] = 1
       THEN Reloaded(Post([S EXCEPT !.joins[f.id] = 0], f, "dataLoaded"), f)
       ELSE [S EXCEPT !.joins[f.id] = @ - 1]
  ELSE CASE f.fn = "switchAccount" ->
              Call(S, Frame(f.id, f.type, "checkRepositoryAccess", FALSE, ""))
         [] f.fn = "checkRepositoryAccess" /\ f.type = "createIssue" ->
              IF value \in {"none", "read"}
              THEN ShowError(S, f, "You do not have permission to create issues in this repository")
              ELSE Call(S, Frame(f.id, f.type, "createIssue", FALSE, value))
         [] f.fn = "checkRepositoryAccess" /\ f.type # "createIssue" ->
              IF value = "none"
              THEN Call(S, Frame(f.id, f.type, "getCurrentUser", FALSE, ""))
              ELSE CallTogether(S, f)
         [] f.fn = "getCurrentUser" -> Reloaded(Post(S, f, "accessDenied"), f)
         [] f.fn = "createIssue" ->
              Call(Post(S, f, "issueCreated"),
                   Frame(f.id, f.type, "getIssues", FALSE, f.access))
         [] f.fn = "getIssues" ->
              ShowInfo(Post(S, f, "issuesRefreshed"), f, "Issue created successfully!")
         [] f.fn = "addPRComment" ->
              ShowInfo(Post(S, f, "prCommentAdded"), f, "Comment added successfully!")
         [] f.fn = "getRecentActivity" -> Post(S, f, "activityLoaded")
         [] f.fn = "getPRComments" -> Post(S, f, "prCommentsLoaded")

\* The handler's catch: the call f it awaited has thrown error.
HandlerCatch(S, f, error) ==
  IF f.part
  THEN IF S.joins[f.id] = 0 THEN S
       ELSE LoadFailed([S EXCEPT !.joins[f.id] = 0], f, error)
  ELSE CASE f.type \in {"loadData", "switchAccount"} /\ f.fn # "switchAccount" ->
              LoadFailed(S, f, error)
         [] f.fn = "switchAccount" -> ShowError(S, f, "Error switching GitHub account")
         [] f.type = "createIssue" /\ f.fn = "getIssues" ->
              ShowInfo(ShowError(S, f, "Error refreshing issues"),
                       f, "Issue created successfully!")
         [] f.type = "createIssue" /\ f.fn # "getIssues" ->
              ShowError(S, f, "Error creating issue")
         [] f.type = "addPRComment" -> ShowError(S, f, "Error adding comment")
         [] f.type = "loadActivity" -> ShowError(S, f, "Error loading activity")
         [] f.type = "loadPRComments" -> ShowError(S, f, "Error loading PR comments")

\* The service function of call f throws error.
Thrown(S, f, error) == HandlerCatch(Logged(S, f, "throw", error), f, error)

\* What a request is answered with, and the permission levels GitHub reports.
Statuses == {"200", "404", "401"}
Permissions == {"read", "write"}

\* The next `await this.octokit!.rest...` of f.fn: the handle is read again,
\* and reading .rest of null throws a TypeError.
Use(S, f, k) ==
  IF S.octokit = NULL
  THEN Thrown(Logged(S, f, "null", Requests(f.fn)[k]), f, "TypeError")
  ELSE Send(S, f, k, S.octokit)

\* checkRepositoryAccess resumes after request f.k was answered.
AccessResumed(S, f, status, permission) ==
  CASE f.k = 1 /\ status = "200" ->
         \* the callee this.octokit!.rest.repos.getCollaboratorPermissionLevel
         \* is evaluated before its argument awaits getCurrentUser
         IF S.octokit = NULL
         THEN Returned(Logged(S, f, "null", Requests(f.fn)[3]), f, "read")
         ELSE Send(S, [f EXCEPT !.held = S.octokit.auth], 2, S.octokit)
    [] f.k = 1 /\ status = "404" -> Returned(S, f, "none")
    [] f.k = 1 /\ status \notin {"200", "404"} -> Thrown(S, f, status)
    [] f.k = 2 /\ status = "200" -> Send(S, f, 3, Client(f.held))
    [] f.k = 3 /\ status = "200" -> Returned(S, f, permission)
    [] f.k > 1 /\ status # "200" -> Returned(S, f, "read")

\* The service function of f resumes after request f.k was answered.
Resumed(S, f, status, permission) ==
  IF f.fn = "checkRepositoryAccess" THEN AccessResumed(S, f, status, permission)
  ELSE IF status # "200" THEN Thrown(S, f, status)
  ELSE IF f.k < Len(Requests(f.fn)) THEN Use(S, f, f.k + 1)
  ELSE Returned(S, f, "ok")

\* The step leaves the service and the handlers as S.
Becomes(S) ==
  /\ octokit' = S.octokit
  /\ calls' = S.calls
  /\ joins' = S.joins
  /\ trace' = S.trace

\* The call of initializeOctokit by the constructor of the service.
Constructor == Frame(0, "activate", "constructor", FALSE, "")

MessageTypes ==
  {"loadData", "switchAccount", "createIssue", "addPRComment", "loadActivity",
   "loadPRComments"}

\* The service function a handler calls first.
FirstCall(type) ==
  CASE type = "loadData" -> "checkRepositoryAccess"
    [] type = "createIssue" -> "checkRepositoryAccess"
    [] type = "addPRComment" -> "addPRComment"
    [] type = "loadActivity" -> "getRecentActivity"
    [] type = "loadPRComments" -> "getPRComments"

\* _handleMessage up to the first await that does not settle at once.
\* switchAccount clears the handle and awaits getSession with forceNewSession.
HandleMessage ==
  /\ handled < MaxMessages
  /\ handled' = handled + 1
  /\ \E type \in MessageTypes :
       IF type = "switchAccount"
       THEN /\ Becomes([Logged([Now EXCEPT !.octokit = NULL],
                               Frame(handled + 1, type, "switchAccount", FALSE, ""),
                               "getSession", "forceNewSession")
                          EXCEPT !.calls = @ (+)
                            SetToBag({Frame(handled + 1, type, "switchAccount",
                                            FALSE, "")})])
            /\ switched' = 0
       ELSE /\ Becomes(Call(Now, Frame(handled + 1, type, FirstCall(type),
                                       FALSE, "")))
            /\ UNCHANGED switched
  /\ UNCHANGED <<session, git, started, inflight, last, rvars, pvars, uvars>>

\* The sessions getSession may resolve with when called at session from:
\* one the extension held since, or the one createIfNone creates.
SessionsSince(from) ==
  IF session = 0 THEN {1} ELSE {s \in 1..session : s >= from}

\* initializeOctokit after getSession settled, and ensureAuthenticated after
\* it: `return this.octokit !== null`.
Initialized(S, f) ==
  IF f.fn = "constructor" THEN S
  ELSE IF S.octokit # NULL THEN Send(S, f, 1, S.octokit)
  ELSE Thrown(S, f, "GitHub authentication failed")

\* getSession of a call settles: resolved with a session, the function
\* stores a client for it; rejected, initializeOctokit shows an error and
\* switchAccount rethrows.
GetSessionSettles ==
  \E f \in BagToSet(calls) :
    /\ f.k = 0
    /\ IF f.fn = "switchAccount"
       THEN \/ /\ session' = session + 1
               /\ switched' = session + 1
               /\ Becomes(Returned([Now EXCEPT !.octokit = Client(session + 1),
                                               !.calls = @ (-) SetToBag({f})], f, "ok"))
            \/ /\ UNCHANGED <<session, switched>>
               /\ Becomes(Thrown([Now EXCEPT !.calls = @ (-) SetToBag({f})], f, "Canceled"))
       ELSE \/ \E s \in SessionsSince(f.from) :
                 /\ session' = IF session = 0 THEN 1 ELSE session
                 /\ UNCHANGED switched
                 /\ Becomes(Initialized([Now EXCEPT !.octokit = Client(s),
                                                    !.calls = @ (-) SetToBag({f})], f))
            \/ /\ UNCHANGED <<session, switched>>
               /\ Becomes(Initialized(
                    ShowError([Now EXCEPT !.calls = @ (-) SetToBag({f})], f,
                              "Failed to authenticate with GitHub"), f))
    /\ UNCHANGED <<handled, git, started, inflight, last, rvars, pvars, uvars>>

\* GitHub answers the request a call awaits.
RequestSettles ==
  \E f \in BagToSet(calls), status \in Statuses, permission \in Permissions :
    /\ f.k > 0
    /\ (f.fn # "checkRepositoryAccess" \/ f.k # 3 \/ status # "200")
         => permission = "read"
    /\ Becomes(Resumed([Now EXCEPT !.calls = @ (-) SetToBag({f})], f, status, permission))
    /\ UNCHANGED <<session, switched, handled, git, started, inflight, last, rvars,
                   pvars, uvars>>

InitSession ==
  /\ isGitRepo = TRUE
  /\ remoteThrows = FALSE
  /\ remoteLines = <<>>
  /\ rpc = "idle"
  /\ repoInfo = NULL
  /\ execLog = <<>>
  /\ debugLog = ""
  /\ git = NULL
  /\ CheckoutIdle
  \* the user is signed in to GitHub or not; the constructor of the service
  \* has called initializeOctokit
  /\ session \in {0, 1}
  /\ octokit = NULL
  /\ calls = SetToBag({Constructor})
  /\ joins = [id \in 1..MaxMessages |-> 0]
  /\ trace = {}
  /\ handled = 0
  /\ switched = 0
  /\ PanelIdle
  /\ ChangesIdle

NextSession == HandleMessage \/ GetSessionSettles \/ RequestSettles

SpecSession == InitSession /\ [][NextSession]_vars

\* ------------------------------------------------------------------------
\* Properties of the API client and its users (checked under SpecSession)

\* The write requests the handlers have sent.
WritesSent == {e \in trace : e.what = "request" /\ e.fn \in Writes}

C23_IssuesChecked ==
  \A e \in WritesSent : e.fn = "createIssue" => e.access = "write"

C23_IssueWitness ==
  \E e \in WritesSent : e.fn = "createIssue" /\ e.access = "write"

\* C24: no call that ensureAuthenticated let through reads the handle while
\* it is null, whatever switchAccount does in between.
C24_HandleNeverNull == \A e \in trace : e.what # "null"

\* C25: from the moment a switchAccount resolves until the next one is asked
\* for, the handle holds the client built from the session it forced.
C25_ClientIsSwitched == switched # 0 => octokit = Client(switched)

\* ensureAuthenticated returned false to a call.
AuthenticationFailures ==
  {e \in trace : e.what = "throw" /\ e.arg = "GitHub authentication failed"}

\* C29: an operation sends its first request only with a client in the
\* handle; initializeOctokit is started by ensureAuthenticated only while the
\* handle is null; 'GitHub authentication failed' is thrown only with the
\* handle still null and before any request of the operation; and when the
\* access check of _loadGitHubData throws it, the webview is sent
\* authenticationError.
C29_AuthenticatedFirst ==
  /\ \A e \in trace :
       /\ e.what = "request" => e.client
       /\ e.what = "null" => e.k >= 1
       /\ (e.what = "getSession" /\ e.arg = "createIfNone") => ~e.client
  /\ \A e \in AuthenticationFailures :
       /\ e.k = 0 /\ ~e.client
       /\ (e.fn = "checkRepositoryAccess" /\ e.type \in {"loadData", "switchAccount"})
            => \E p \in trace :
                 p.what = "post" /\ p.arg = "authenticationError" /\ p.type = e.type

\* The data load failed to authenticate and told the webview, and a write
\* was sent by a client that an initialization had stored.
C29_Witness ==
  /\ \E e \in AuthenticationFailures :
       e.type = "loadData" /\ e.fn = "checkRepositoryAccess"
  /\ \E p \in trace : p.what = "post" /\ p.arg = "authenticationError"
  /\ \E r \in trace : r.what = "request" /\ r.client

\* ------------------------------------------------------------------------
\* The dashboard panel, the details panels and the replies to their webviews

\* Most panels created, and most commands and webview messages, in one
\* behaviour.
MaxPanels == 3
MaxInputs == 4

\* What the script of the dashboard page posts, as far as the panels see it,
\* and what the script of a details page posts.
DashboardPosts == {"loadData", "refreshIssues", "refreshPRs", "viewDetails"}
DetailsPosts == {"loadPRDetails", "loadPRComments", "addPRComment", "copyPRContent"}

\* The message a handler sends when its operation succeeded.
Reply(type) ==
  CASE type = "loadData" -> "dataLoaded"
    [] type = "refreshIssues" -> "issuesRefreshed"
    [] type = "refreshPRs" -> "prsRefreshed"

\* vscode.window.createWebviewPanel
NewPanel(kind) == [kind |-> kind, alive |-> TRUE]

Alive(kind) == {p \in 1..Len(panels) : panels[p].kind = kind /\ panels[p].alive}

\* Mutant (C26): createOrShow without `if (devDashProvider._currentPanel)`.
CreateAlways ==
  /\ inputs < MaxInputs /\ Len(panels) < MaxPanels
  /\ inputs' = inputs + 1
  /\ panels' = Append(panels, NewPanel("dashboard"))
  /\ currentPanel' = Len(panels) + 1
  /\ UNCHANGED <<operations, delivered, posted, uvars, svars, cvars, rvars>>

\* devDash.openViewer or devDash.refresh: createOrShow reveals the current
\* panel, or creates one with a provider of its own and both listeners.
CreateOrShow ==
  /\ inputs < MaxInputs
  /\ inputs' = inputs + 1
  /\ IF currentPanel # 0
     THEN UNCHANGED <<currentPanel, panels>>
     ELSE /\ Len(panels) < MaxPanels
          /\ panels' = Append(panels, NewPanel("dashboard"))
          /\ currentPanel' = Len(panels) + 1
  /\ UNCHANGED <<operations, delivered, posted, uvars, svars, cvars, rvars>>

\* The user closes a panel. The dashboard's onDidDispose listener clears
\* _currentPanel; a details panel has no listener.
DisposePanel ==
  \E p \in 1..Len(panels) :
    /\ panels[p].alive
    /\ panels' = [panels EXCEPT ![p].alive = FALSE]
    /\ currentPanel' = IF panels[p].kind = "dashboard" THEN 0 ELSE currentPanel
    /\ UNCHANGED <<operations, delivered, posted, inputs, uvars, svars, cvars, rvars>>

\* The dashboard page posts a message: onDidReceiveMessage hands it to
\* _handleMessage of the panel's provider, which opens a details panel
\* (_viewItemDetails) or starts an operation and awaits it.
DashboardPost ==
  \E p \in Alive("dashboard"), type \in DashboardPosts :
    /\ inputs < MaxInputs
    /\ inputs' = inputs + 1
    /\ IF type = "viewDetails"
       THEN /\ Len(panels) < MaxPanels
            /\ panels' = Append(panels, NewPanel("details"))
            /\ UNCHANGED operations
       ELSE /\ operations' = operations (+) SetToBag({[from |-> p, type |-> type]})
            /\ UNCHANGED panels
    /\ UNCHANGED <<currentPanel, delivered, posted, uvars, svars, cvars, rvars>>

\* The details page posts a message: _viewItemDetails has registered no
\* onDidReceiveMessage listener on its panel, so nothing receives it.
DetailsPost ==
  \E p \in Alive("details"), type \in DetailsPosts :
    /\ inputs < MaxInputs
    /\ inputs' = inputs + 1
    /\ posted' = posted \cup {[from |-> p, type |-> type]}
    /\ UNCHANGED <<currentPanel, panels, operations, delivered, uvars, svars, cvars, rvars>>

\* _sendMessage: the reply of operation o goes to the current panel, if any.
SendMessage(o) ==
  IF currentPanel # 0
  THEN delivered \cup {[from |-> o.from, to |-> currentPanel, type |-> Reply(o.type)]}
  ELSE delivered

\* The operation a handler awaits settles: the handler sends its reply, or
\* shows the error.
OperationSettles ==
  \E o \in BagToSet(operations), ok \in BOOLEAN :
    /\ operations' = operations (-) SetToBag({o})
    /\ delivered' = IF ok THEN SendMessage(o) ELSE delivered
    /\ UNCHANGED <<currentPanel, panels, posted, inputs, uvars, svars, cvars, rvars>>

InitPanel ==
  /\ isGitRepo = TRUE
  /\ remoteThrows = FALSE
  /\ remoteLines = <<>>
  /\ rpc = "idle"
  /\ repoInfo = NULL
  /\ execLog = <<>>
  /\ debugLog = ""
  /\ git = NULL
  /\ octokit = FALSE
  /\ CheckoutIdle
  /\ SessionIdle
  /\ PanelIdle
  /\ ChangesIdle

NextPanel ==
  CreateOrShow \/ DisposePanel \/ DashboardPost \/ DetailsPost \/ OperationSettles

SpecPanel == InitPanel /\ [][NextPanel]_vars

\* Every operation that is awaited settles: its requests are answered or
\* time out.
SpecPanelFair == SpecPanel /\ WF_vars(OperationSettles)

\* ------------------------------------------------------------------------
\* Properties of the panels (checked under SpecPanel and SpecPanelFair)

\* The dashboard panels of ps that are not disposed.
DashboardsIn(ps) == {p \in 1..Len(ps) : ps[p].kind = "dashboard" /\ ps[p].alive}

\* C26: after every step the dashboard panels that are not disposed are
\* exactly the current panel, if there is one; a step creates a dashboard
\* panel only when there is no current panel, and the panel it creates is a
\* new one that becomes the current panel; a current panel stays the current
\* one until it is disposed.
C26_SinglePanel ==
  [][/\ DashboardsIn(panels') = (IF currentPanel' = 0 THEN {} ELSE {currentPanel'})
     /\ (DashboardsIn(panels') \ DashboardsIn(panels) # {}) =>
          /\ currentPanel = 0
          /\ Len(panels') = Len(panels) + 1
          /\ currentPanel' = Len(panels')
     /\ (currentPanel # 0 /\ currentPanel' # currentPanel) =>
          /\ currentPanel' = 0
          /\ ~panels'[currentPanel].alive]_vars

\* A second dashboard was created after the first was disposed, and a
\* further command or message left it the only one.
C26_Witness ==
  /\ inputs = 3 /\ Len(panels) = 2
  /\ panels[1].kind = "dashboard" /\ ~panels[1].alive
  /\ panels[2].kind = "dashboard" /\ currentPanel = 2
  /\ operations = EmptyBag /\ delivered = {} /\ posted = {}

\* C27: a reply reaches only the panel whose message started the operation.
C27_RepliesToSender == \A d \in delivered : d.to = d.from

\* The reply the details page waits for.
DetailsReply(type) ==
  CASE type = "loadPRDetails" -> "prDetailsLoaded"
    [] type = "loadPRComments" -> "prCommentsLoaded"
    [] type = "addPRComment" -> "prCommentAdded"

\* C28: a message a details page has posted is answered in the end: the
\* reply of its handler is delivered to that page.
C28_DetailsAnswered ==
  \A p \in 1..MaxPanels, type \in DetailsPosts \ {"copyPRContent"} :
    ([from |-> p, type |-> type] \in posted)
      ~> (\E d \in delivered : d.to = p /\ d.type = DetailsReply(type))

\* ------------------------------------------------------------------------
\* getUncommittedChanges

\* The number of lines `git status --porcelain` prints.
MaxStatusLines == 2

\* The XY codes of the short format: X the state of the index, Y the state of
\* the working tree.
StatusCodes ==
  { <<" ", "M">>, <<" ", "D">>, <<"M", " ">>, <<"A", " ">>, <<"D", " ">>,
    <<"M", "M">>, <<"A", "M">>, <<"A", "D">>, <<"?", "?">> }

StatusPaths == { <<"a">>, <<"b", "c">> }

\* One line of the output: "XY path".
StatusLine(xy, path) == xy \o <<" ">> \o path

StatusLines == {StatusLine(xy, path) : xy \in StatusCodes, path \in StatusPaths}

StatusOutputs ==
  UNION {[1..n -> StatusLines] : n \in 0..MaxStatusLines}

\* String.prototype.trim
TrimStart(s) ==
  Slice(s, MinOf({i \in 1..Len(s) : ~IsSpace(s[i])} \cup {Len(s) + 1}), Len(s))

TrimEnd(s) ==
  Slice(s, 1, MaxOf({i \in 1..Len(s) : ~IsSpace(s[i])} \cup {0}))

Trim(s) == TrimEnd(TrimStart(s))

\* s[i] of JavaScript, i counted from 0; undefined equals no character.
CharAt(s, i) == IF i + 1 <= Len(s) THEN s[i + 1] ELSE "undefined"

\* String.prototype.substring(from), from counted from 0.
SubstringFrom(s, from) == Slice(s, from + 1, Len(s))

\* The three pushes of the forEach callback for one line.
PushIf(list, cond, file) == IF cond THEN Append(list, file) ELSE list

PushLine(acc, line, file) ==
  [staged    |-> PushIf(acc.staged,
                        CharAt(line, 0) # " " /\ CharAt(line, 0) # "?", file),
   modified  |-> PushIf(acc.modified,
                        CharAt(line, 1) = "M" \/ CharAt(line, 1) = "D", file),
   untracked |-> PushIf(acc.untracked,
                        CharAt(line, 0) = "?" /\ CharAt(line, 1) = "?", file)]

NoChanges == [staged |-> <<>>, modified |-> <<>>, untracked |-> <<>>]

\* statusOutput.trim().split('\n').forEach(...)
RECURSIVE EachLine(_, _)
EachLine(lines, acc) ==
  IF lines = <<>> THEN acc
  ELSE IF Len(Head(lines)) = 0 THEN EachLine(Tail(lines), acc)
  ELSE EachLine(Tail(lines),
                PushLine(acc, Head(lines), SubstringFrom(Head(lines), 3)))

ParseStatus(statusOutput) == EachLine(Split(Trim(statusOutput), "\n"), NoChanges)

\* getUncommittedChanges: the command fails, or its output is parsed.
GetUncommittedChanges ==
  /\ changes = NULL
  /\ changes' = IF statusThrows THEN NoChanges ELSE ParseStatus(JoinLines(porcelain))
  /\ UNCHANGED <<porcelain, statusThrows, svars, pvars, cvars, rvars>>

InitChanges ==
  /\ isGitRepo = TRUE
  /\ remoteThrows = FALSE
  /\ remoteLines = <<>>
  /\ rpc = "idle"
  /\ repoInfo = NULL
  /\ execLog = <<>>
  /\ debugLog = ""
  /\ git = NULL
  /\ octokit = FALSE
  /\ CheckoutIdle
  /\ SessionIdle
  /\ PanelIdle
  /\ porcelain \in StatusOutputs
  /\ statusThrows \in BOOLEAN
  /\ changes = NULL

NextChanges == GetUncommittedChanges

SpecChanges == InitChanges /\ [][NextChanges]_vars

\* What the lines of the output say, read from each whole line "XY path".
Listed(lines, Wanted(_)) ==
  [i \in 1..Cardinality({j \in 1..Len(lines) : Wanted(lines[j])}) |->
     SubstringFrom(lines[CHOOSE j \in 1..Len(lines) :
                           /\ Wanted(lines[j])
                           /\ Cardinality({k \in 1..j : Wanted(lines[k])}) = i], 3)]

IsStaged(line) == line[1] # " " /\ line[1] # "?"
IsModified(line) == line[2] \in {"M", "D"}
IsUntracked(line) == line[1] = "?" /\ line[2] = "?"

\* C30: for every output of `git status --porcelain`, getUncommittedChanges
\* reports the path of each line "XY path" verbatim, in staged exactly when X
\* is neither a space nor '?', in modified exactly when Y is 'M' or 'D', in
\* untracked exactly when XY is '??', the first line included when it starts
\* with a space; when git fails the three lists are empty.
C30_ChangesMatchLines ==
  changes # NULL =>
    IF statusThrows THEN changes = NoChanges
    ELSE /\ changes.staged = Listed(porcelain, IsStaged)
         /\ changes.modified = Listed(porcelain, IsModified)
         /\ changes.untracked = Listed(porcelain, IsUntracked)

\* The same for the outputs whose first line does not start with a space.
FirstLineHasIndexState == porcelain = <<>> \/ porcelain[1][1] # " "

ChangesMatchUnlessFirstIsBlank ==
  (changes # NULL /\ FirstLineHasIndexState) =>
    IF statusThrows THEN changes = NoChanges
    ELSE /\ changes.staged = Listed(porcelain, IsStaged)
         /\ changes.modified = Listed(porcelain, IsModified)
         /\ changes.untracked = Listed(porcelain, IsUntracked)

====
